---------------------------- MODULE Spec2Model ----------------------------
(***************************************************************************)
(* A model of callahad/authdaemon: the request validation of its OpenID    *)
(* Connect provider (validation.go, openid_provider.go).                   *)
(*                                                                         *)
(* Go strings are modelled as sequences of one-character strings, so that  *)
(* parsing, trimming and pattern matching are computed on the text, as the *)
(* code computes them.                                                     *)
(***************************************************************************)
EXTENDS Integers, Sequences, FiniteSets, TLC

(***************************************************************************)
(* Characters.  Ascii lists the printable ASCII characters in code order:  *)
(* Ascii[i] has code 31 + i (the grave accent, code 96, is written as a    *)
(* token).  The tab (code 9) is the one control character of the model.    *)
(***************************************************************************)
Ascii ==
  << " ", "!", "\"", "#", "$", "%", "&", "'", "(", ")", "*", "+", ",", "-", ".", "/",
     "0", "1", "2", "3", "4", "5", "6", "7", "8", "9", ":", ";", "<", "=", ">", "?",
     "@", "A", "B", "C", "D", "E", "F", "G", "H", "I", "J", "K", "L", "M", "N", "O",
     "P", "Q", "R", "S", "T", "U", "V", "W", "X", "Y", "Z", "[", "\\", "]", "^", "_",
     "<grave>", "a", "b", "c", "d", "e", "f", "g", "h", "i", "j", "k", "l", "m", "n", "o",
     "p", "q", "r", "s", "t", "u", "v", "w", "x", "y", "z", "{", "|", "}", "~" >>

Tab == "\t"

Chars == {Ascii[i] : i \in 1..Len(Ascii)} \cup {Tab}

CodeOf == [c \in Chars |-> IF c = Tab THEN 9
                           ELSE 31 + (CHOOSE i \in 1..Len(Ascii) : Ascii[i] = c)]

\* A byte outside the table is a non-ASCII byte (0x80 and above).
Code(c) == IF c \in Chars THEN CodeOf[c] ELSE 128

\* c lies in the byte range lo-hi, as in a regexp class [lo-hi] or a Go
\* comparison lo <= c && c <= hi.
InRange(c, lo, hi) == Code(lo) <= Code(c) /\ Code(c) <= Code(hi)

IsLower(c) == InRange(c, "a", "z")
IsUpper(c) == InRange(c, "A", "Z")
IsAlpha(c) == IsLower(c) \/ IsUpper(c)
IsDigit(c) == InRange(c, "0", "9")
IsAlnum(c) == IsAlpha(c) \/ IsDigit(c)
IsHex(c)   == IsDigit(c) \/ InRange(c, "a", "f") \/ InRange(c, "A", "F")

\* unhex of net/url.
Unhex(c) == IF IsDigit(c) THEN Code(c) - Code("0")
            ELSE IF InRange(c, "a", "f") THEN Code(c) - Code("a") + 10
            ELSE IF InRange(c, "A", "F") THEN Code(c) - Code("A") + 10
            ELSE 0

\* The character of a byte value; a byte outside the table is kept as an
\* opaque non-ASCII token, which no pattern of the program matches.
NonAscii == "<byte>"
ByteChar(n) == IF n = 9 THEN Tab
               ELSE IF n >= 32 /\ n <= 126 THEN Ascii[n - 31]
               ELSE NonAscii

\* strings.ToLower, on one character and on a string.
LowerChar(c) == IF IsUpper(c) THEN ByteChar(Code(c) + 32) ELSE c
ToLower(s) == [i \in 1..Len(s) |-> LowerChar(s[i])]

(***************************************************************************)
(* Package strings.                                                        *)
(***************************************************************************)
\* strings.Index(s, c) for a one-character c: the first position, 0 if none.
Index(s, c) ==
  IF \E i \in 1..Len(s) : s[i] = c
    THEN CHOOSE i \in 1..Len(s) : s[i] = c /\ \A j \in 1..(i - 1) : s[j] # c
    ELSE 0

\* strings.LastIndex(s, c): the last position, 0 if none.
LastIndex(s, c) ==
  IF \E i \in 1..Len(s) : s[i] = c
    THEN CHOOSE i \in 1..Len(s) : s[i] = c /\ \A j \in (i + 1)..Len(s) : s[j] # c
    ELSE 0

Count(s, c) == Cardinality({i \in 1..Len(s) : s[i] = c})

HasPrefix(s, p) == Len(s) >= Len(p) /\ SubSeq(s, 1, Len(p)) = p

HasSuffix(s, p) == Len(s) >= Len(p) /\ SubSeq(s, Len(s) - Len(p) + 1, Len(s)) = p

ContainsChar(s, c) == \E i \in 1..Len(s) : s[i] = c

\* s[from:] in Go's zero-based slices is Drop(s, from).
Drop(s, n) == SubSeq(s, n + 1, Len(s))
Take(s, n) == SubSeq(s, 1, n)

\* strings.Cut(s, c): the text before and after the first c.
Cut(s, c) ==
  LET i == Index(s, c)
  IN  IF i = 0 THEN [before |-> s, after |-> << >>, found |-> FALSE]
      ELSE [before |-> Take(s, i - 1), after |-> Drop(s, i), found |-> TRUE]

\* unicode.IsSpace on the model's characters.
IsSpace(c) == c = " " \/ c = Tab

\* strings.TrimSpace.
RECURSIVE TrimLeft(_)
TrimLeft(s) == IF s # << >> /\ IsSpace(Head(s)) THEN TrimLeft(Tail(s)) ELSE s

RECURSIVE TrimRight(_)
TrimRight(s) ==
  IF s # << >> /\ IsSpace(s[Len(s)]) THEN TrimRight(Take(s, Len(s) - 1)) ELSE s

TrimSpace(s) == TrimRight(TrimLeft(s))

(***************************************************************************)
(* Package net/url: url.Parse, as far as the program reads its result      *)
(* (Scheme, Opaque, User, Host, Path, RawQuery, Fragment).                 *)
(***************************************************************************)
\* The escaping modes of net/url that Parse uses.
ModePath == "encodePath"
ModeHost == "encodeHost"
ModeUserPassword == "encodeUserPassword"
ModeFragment == "encodeFragment"

\* shouldEscape(c, encodeHost): whether c may not stand unescaped in a host.
ShouldEscapeHost(c) ==
  ~ ( \/ IsAlnum(c)
      \/ c \in {"!", "$", "&", "'", "(", ")", "*", "+", ",", ";", "=", ":", "[", "]",
                "<", ">", "\""}
      \/ c \in {"-", "_", ".", "~"} )

\* unescape(s, mode): the text with its %XX escapes decoded, or an error: a
\* '%' not followed by two hex digits; in a host, an escape of an ASCII byte
\* other than %25, or a character that may not stand in a host.
RECURSIVE Unescape(_, _)
Unescape(s, mode) ==
  IF s = << >> THEN [err |-> FALSE, val |-> << >>]
  ELSE IF Head(s) = "%" THEN
    IF Len(s) < 3 \/ ~IsHex(s[2]) \/ ~IsHex(s[3]) THEN [err |-> TRUE, val |-> << >>]
    ELSE IF mode = ModeHost /\ Unhex(s[2]) < 8 /\ Take(s, 3) # <<"%", "2", "5">>
      THEN [err |-> TRUE, val |-> << >>]
    ELSE LET rest == Unescape(Drop(s, 3), mode)
         IN  [err |-> rest.err,
              val |-> <<ByteChar(16 * Unhex(s[2]) + Unhex(s[3]))>> \o rest.val]
  ELSE IF mode = ModeHost /\ Code(Head(s)) < 128 /\ ShouldEscapeHost(Head(s))
    THEN [err |-> TRUE, val |-> << >>]
  ELSE LET rest == Unescape(Tail(s), mode)
       IN  [err |-> rest.err, val |-> <<Head(s)>> \o rest.val]

\* getScheme(rawURL): the scheme before the first ':', if the text up to it
\* is letters, digits, '+', '-', '.' and starts with a letter.
RECURSIVE GetSchemeAt(_, _)
GetSchemeAt(s, i) ==
  LET none == [err |-> FALSE, scheme |-> << >>, rest |-> s]
  IN  IF i > Len(s) THEN none
      ELSE IF IsAlpha(s[i]) THEN GetSchemeAt(s, i + 1)
      ELSE IF IsDigit(s[i]) \/ s[i] \in {"+", "-", "."}
        THEN IF i = 1 THEN none ELSE GetSchemeAt(s, i + 1)
      ELSE IF s[i] = ":"
        THEN IF i = 1 THEN [err |-> TRUE, scheme |-> << >>, rest |-> << >>]
             ELSE [err |-> FALSE, scheme |-> Take(s, i - 1), rest |-> Drop(s, i)]
      ELSE none

GetScheme(s) == GetSchemeAt(s, 1)

\* validOptionalPort(port): "" or ":" followed by digits only.
ValidOptionalPort(port) ==
  \/ port = << >>
  \/ /\ Head(port) = ":"
     /\ \A i \in 2..Len(port) : IsDigit(port[i])

\* parseHost(host).  A bracketed host needs its ']' and a valid port after
\* it; any other host a valid port after its last ':'.  The host is then
\* unescaped in host mode.  (A bracketed host with a %25 zone is unescaped
\* in zone mode; the model's hosts have none.)
ParseHost(host) ==
  IF HasPrefix(host, <<"[">>) /\ LastIndex(host, "]") = 0
    THEN [err |-> TRUE, val |-> << >>]
  ELSE IF HasPrefix(host, <<"[">>)
            /\ ~ValidOptionalPort(Drop(host, LastIndex(host, "]")))
    THEN [err |-> TRUE, val |-> << >>]
  ELSE IF ~HasPrefix(host, <<"[">>) /\ LastIndex(host, ":") # 0
            /\ ~ValidOptionalPort(Drop(host, LastIndex(host, ":") - 1))
    THEN [err |-> TRUE, val |-> << >>]
  ELSE Unescape(host, ModeHost)

\* validUserinfo(s): letters, digits and - . _ : ~ ! $ & ' ( ) * + , ; = % @
ValidUserinfo(s) ==
  \A i \in 1..Len(s) :
    \/ IsAlnum(s[i])
    \/ s[i] \in {"-", ".", "_", ":", "~", "!", "$", "&", "'", "(", ")", "*", "+", ",",
                 ";", "=", "%", "@"}

\* u.User == nil
NoUser == [set |-> FALSE, username |-> << >>, password |-> << >>]

\* parseAuthority(authority): the userinfo before the last '@' (at i, 0 if
\* there is none) and the host after it.
AuthorityError == [err |-> TRUE, user |-> NoUser, host |-> << >>]

\* The user of a valid userinfo: user[:password], each part unescaped.
ParseUserinfo(username, password, host) ==
  IF username.err \/ password.err THEN AuthorityError
  ELSE [err |-> FALSE,
        user |-> [set |-> TRUE, username |-> username.val, password |-> password.val],
        host |-> host]

ParseAuthorityAt(userinfo, host, i) ==
  IF host.err THEN AuthorityError
  ELSE IF i = 0 THEN [err |-> FALSE, user |-> NoUser, host |-> host.val]
  ELSE IF ~ValidUserinfo(userinfo) THEN AuthorityError
  ELSE IF ~ContainsChar(userinfo, ":")
    THEN ParseUserinfo(Unescape(userinfo, ModeUserPassword),
                       [err |-> FALSE, val |-> << >>], host.val)
  ELSE ParseUserinfo(Unescape(Cut(userinfo, ":").before, ModeUserPassword),
                     Unescape(Cut(userinfo, ":").after, ModeUserPassword), host.val)

ParseAuthoritySplit(authority, i) ==
  ParseAuthorityAt(Take(authority, i - 1), ParseHost(Drop(authority, i)), i)

ParseAuthority(authority) == ParseAuthoritySplit(authority, LastIndex(authority, "@"))

\* The zero url.URL, and the result of a failed Parse.
EmptyURL ==
  [err |-> FALSE, Scheme |-> << >>, Opaque |-> << >>, User |-> NoUser, Host |-> << >>,
   Path |-> << >>, RawQuery |-> << >>, Fragment |-> << >>]

ParseError == [EmptyURL EXCEPT !.err = TRUE]

\* stringContainsCTLByte(s): a byte below ' ' or 0x7f.
StringContainsCTLByte(s) == \E i \in 1..Len(s) : Code(s[i]) < 32 \/ Code(s[i]) = 127

\* The end of parse: the URL of the scheme, the parsed authority, the
\* unescaped path (setPath) and the query.
ParseFinish(scheme, auth, path, rawQuery) ==
  IF auth.err \/ path.err THEN ParseError
  ELSE [EmptyURL EXCEPT !.Scheme = scheme, !.User = auth.user, !.Host = auth.host,
                        !.Path = path.val, !.RawQuery = rawQuery]

\* rest = "//" authority [ "/" path ]: slash is the place of the first '/'
\* after the "//" (0 if there is none).
ParseWithAuthority(scheme, afterSlashes, slash, rawQuery) ==
  IF slash = 0
    THEN ParseFinish(scheme, ParseAuthority(afterSlashes),
                     Unescape(<< >>, ModePath), rawQuery)
    ELSE ParseFinish(scheme, ParseAuthority(Take(afterSlashes, slash - 1)),
                     Unescape(Drop(afterSlashes, slash - 1), ModePath), rawQuery)

\* parse after the scheme and the query are cut off.
ParseRest(scheme, rest, rawQuery) ==
  IF ~HasPrefix(rest, <<"/">>) /\ scheme # << >>
    \* "We consider rootless paths per RFC 3986 as opaque."
    THEN [EmptyURL EXCEPT !.Scheme = scheme, !.Opaque = rest, !.RawQuery = rawQuery]
  ELSE IF ~HasPrefix(rest, <<"/">>) /\ ContainsChar(Cut(rest, "/").before, ":")
    \* "first path segment in URL cannot contain colon"
    THEN ParseError
  ELSE IF /\ scheme # << >> \/ ~HasPrefix(rest, <<"/", "/", "/">>)
          /\ HasPrefix(rest, <<"/", "/">>)
    THEN ParseWithAuthority(scheme, Drop(rest, 2), Index(Drop(rest, 2), "/"), rawQuery)
  ELSE ParseFinish(scheme, [err |-> FALSE, user |-> NoUser, host |-> << >>],
                   Unescape(rest, ModePath), rawQuery)

\* parse after getScheme: the scheme is lower-cased; a lone trailing '?' is
\* cut off (ForceQuery), otherwise the query is what follows the first '?'.
ParseAfterScheme(gs) ==
  IF gs.err THEN ParseError
  ELSE IF HasSuffix(gs.rest, <<"?">>) /\ Count(gs.rest, "?") = 1
    THEN ParseRest(ToLower(gs.scheme), Take(gs.rest, Len(gs.rest) - 1), << >>)
  ELSE ParseRest(ToLower(gs.scheme), Cut(gs.rest, "?").before, Cut(gs.rest, "?").after)

\* parse(rawURL, viaRequest = false), on the text before the fragment.
ParseNoFragment(rawURL) ==
  IF StringContainsCTLByte(rawURL) THEN ParseError
  ELSE IF rawURL = <<"*">> THEN [EmptyURL EXCEPT !.Path = <<"*">>]
  ELSE ParseAfterScheme(GetScheme(rawURL))

\* setFragment on a parsed URL.
ParseFragment(u, hasFragment, frag) ==
  IF u.err THEN ParseError
  ELSE IF ~hasFragment THEN u
  ELSE IF frag.err THEN ParseError
  ELSE [u EXCEPT !.Fragment = frag.val]

\* url.Parse(rawURL): the fragment is what follows the first '#'.
Parse(rawURL) ==
  ParseFragment(ParseNoFragment(Cut(rawURL, "#").before),
                Cut(rawURL, "#").after # << >>,
                Unescape(Cut(rawURL, "#").after, ModeFragment))

(***************************************************************************)
(* validation.go                                                           *)
(***************************************************************************)
\* The character classes of emailRE and hostRE.  A class is a union of
\* single characters and byte ranges lo-hi, read as package regexp reads it.
EmailLocalClass(c) ==    \* [+-_.a-zA-Z0-9]
  InRange(c, "+", "_") \/ c = "." \/ InRange(c, "a", "z") \/ InRange(c, "A", "Z")
    \/ InRange(c, "0", "9")

EmailDomainClass(c) ==   \* [-_.a-zA-Z0-9]
  c \in {"-", "_", "."} \/ InRange(c, "a", "z") \/ InRange(c, "A", "Z")
    \/ InRange(c, "0", "9")

HostClass(c) ==          \* [\-.a-zA-Z0-9]
  c \in {"-", "."} \/ InRange(c, "a", "z") \/ InRange(c, "A", "Z")
    \/ InRange(c, "0", "9")

\* emailRE.MatchString(s), emailRE = ^[a-zA-Z0-9][+-_.a-zA-Z0-9]*@[-_.a-zA-Z0-9]+$
emailRE(s) ==
  /\ Len(s) >= 1
  /\ InRange(s[1], "a", "z") \/ InRange(s[1], "A", "Z") \/ InRange(s[1], "0", "9")
  /\ \E k \in 2..Len(s) :
       /\ \A i \in 2..(k - 1) : EmailLocalClass(s[i])
       /\ s[k] = "@"
       /\ k < Len(s)
       /\ \A i \in (k + 1)..Len(s) : EmailDomainClass(s[i])

\* hostRE.MatchString(s), hostRE = ^[\-.a-zA-Z0-9]+(:[0-9]+)?$
hostRE(s) ==
  \E k \in 1..Len(s) :
    /\ \A i \in 1..k : HostClass(s[i])
    /\ \/ k = Len(s)
       \/ /\ s[k + 1] = ":"
          /\ k + 2 <= Len(s)
          /\ \A i \in (k + 2)..Len(s) : IsDigit(s[i])

SchemeHTTP == <<"h", "t", "t", "p">>
SchemeHTTPS == <<"h", "t", "t", "p", "s">>
Port80 == <<":", "8", "0">>
Port443 == <<":", "4", "4", "3">>

\* validURITests without the test of u.User.
validURITestsNoUser(u) ==
  /\ u.Opaque = << >>
  /\ u.Scheme = SchemeHTTP \/ u.Scheme = SchemeHTTPS
  /\ ~(u.Scheme = SchemeHTTP /\ HasSuffix(u.Host, Port80))
  /\ ~(u.Scheme = SchemeHTTPS /\ HasSuffix(u.Host, Port443))
  /\ hostRE(u.Host)

\* The tests of validURI on the parsed URL u.
validURITests(u) ==
  /\ u.Opaque = << >>
  /\ u.Scheme = SchemeHTTP \/ u.Scheme = SchemeHTTPS
  /\ ~(u.Scheme = SchemeHTTP /\ HasSuffix(u.Host, Port80))
  /\ ~(u.Scheme = SchemeHTTPS /\ HasSuffix(u.Host, Port443))
  /\ hostRE(u.Host)
  /\ u.User = NoUser

validParsed(u) == IF u.err THEN FALSE ELSE validURITests(u)

\* onlyOriginParsed without the test of u.Path.
onlyOriginParsedNoPath(u) ==
  ~(u.err \/ ~validParsed(u) \/ u.RawQuery # << >> \/ u.Fragment # << >>)

\* validURI ensures that URIs are valid and conform to our expectations.
validURI(uri) == validParsed(Parse(uri))

onlyOriginParsed(u) ==
  ~(u.err \/ ~validParsed(u) \/ u.Path # << >> \/ u.RawQuery # << >>
      \/ u.Fragment # << >>)

\* onlyOrigin checks that a URL is valid and only has a scheme, host, and port.
onlyOrigin(uri) == onlyOriginParsed(Parse(uri))

containedByParsed(a, b) ==
  IF ~validParsed(b) \/ ~validParsed(a) THEN FALSE
  ELSE IF ~onlyOriginParsed(b) THEN FALSE
  ELSE IF a.err \/ b.err THEN FALSE
  ELSE a.Scheme = b.Scheme /\ a.Host = b.Host

\* containedBy comparing the texts by prefix instead of the parsed scheme
\* and host.
containedByPrefix(uri, origin) ==
  IF ~validURI(origin) \/ ~validURI(uri) THEN FALSE
  ELSE IF ~onlyOrigin(origin) THEN FALSE
  ELSE HasPrefix(uri, origin)

\* containedBy checks that a given URL is within a given origin.
containedBy(uri, origin) == containedByParsed(Parse(uri), Parse(origin))

(***************************************************************************)
(* openid_provider.go: AuthRequest, complete, valid.                       *)
(***************************************************************************)
\* The fields of AuthRequest in declaration order, with their `form` and
\* `binding` tags.
AuthRequestFields ==
  << [field |-> "Scope",        form |-> "scope",         binding |-> "required"],
     [field |-> "ResponseType", form |-> "response_type", binding |-> "required"],
     [field |-> "ClientID",     form |-> "client_id",     binding |-> "required"],
     [field |-> "RedirectURI",  form |-> "redirect_uri",  binding |-> "required"],
     [field |-> "LoginHint",    form |-> "login_hint",    binding |-> "required"],
     [field |-> "ResponseMode", form |-> "response_mode", binding |-> ""],
     [field |-> "State",        form |-> "state",         binding |-> ""],
     [field |-> "Nonce",        form |-> "nonce",         binding |-> ""] >>

\* var form AuthRequest: every field the empty string.
ZeroAuthRequest ==
  [Scope |-> << >>, ResponseType |-> << >>, ClientID |-> << >>, RedirectURI |-> << >>,
   LoginHint |-> << >>, ResponseMode |-> << >>, State |-> << >>, Nonce |-> << >>]

\* A nil error.
Nil == "<nil>"

\* completeFrom without strings.TrimSpace.
RECURSIVE completeFromNoTrim(_, _)
completeFromNoTrim(params, i) ==
  IF i > Len(AuthRequestFields) THEN Nil
  ELSE IF /\ AuthRequestFields[i].binding = "required"
          /\ params[AuthRequestFields[i].field] = << >>
    THEN "No value for required field: " \o AuthRequestFields[i].form
  ELSE completeFromNoTrim(params, i + 1)

\* complete verifies that all required fields are present: the loop over the
\* struct's fields from field i on.
RECURSIVE completeFrom(_, _)
completeFrom(params, i) ==
  IF i > Len(AuthRequestFields) THEN Nil
  ELSE LET f == AuthRequestFields[i]
           required == f.binding = "required"
           value == TrimSpace(params[f.field])
       IN  IF required /\ value = << >>
             THEN "No value for required field: " \o f.form
             ELSE completeFrom(params, i + 1)

complete(params) == completeFrom(params, 1)

LitOpenidEmail == <<"o", "p", "e", "n", "i", "d", " ", "e", "m", "a", "i", "l">>
LitIdToken == <<"i", "d", "_", "t", "o", "k", "e", "n">>
LitParamsPost == <<"p", "a", "r", "a", "m", "s", "_", "p", "o", "s", "t">>

urlNote == "Note: urls must be absolute, must use http or https, and must omit default ports"

\* validTests without the test of containedBy.
validTestsNoContainment(params) ==
  << [description |-> "scope must be exactly 'openid email'",
      ok |-> params.Scope = LitOpenidEmail],
     [description |-> "response_type must be exactly 'id_token'",
      ok |-> params.ResponseType = LitIdToken],
     [description |-> "client_id must be a valid url. " \o urlNote,
      ok |-> validURI(params.ClientID)],
     [description |-> "client_id must not include paths, query values, or fragments",
      ok |-> onlyOrigin(params.ClientID)],
     [description |-> "redirect_uri must be a valid url. " \o urlNote,
      ok |-> validURI(params.RedirectURI)],
     [description |-> "response_mode must be 'params_post' or empty",
      ok |-> params.ResponseMode = LitParamsPost \/ params.ResponseMode = << >>],
     [description |-> "login_hint must look like a valid email address",
      ok |-> emailRE(params.LoginHint)] >>

\* The validation testCases of valid, in order.
validTests(params) ==
  << [description |-> "scope must be exactly 'openid email'",
      ok |-> params.Scope = LitOpenidEmail],
     [description |-> "response_type must be exactly 'id_token'",
      ok |-> params.ResponseType = LitIdToken],
     [description |-> "client_id must be a valid url. " \o urlNote,
      ok |-> validURI(params.ClientID)],
     [description |-> "client_id must not include paths, query values, or fragments",
      ok |-> onlyOrigin(params.ClientID)],
     [description |-> "redirect_uri must be a valid url. " \o urlNote,
      ok |-> validURI(params.RedirectURI)],
     [description |-> "redirect_uri must be an absolute url that falls within client_id's origin",
      ok |-> containedBy(params.RedirectURI, params.ClientID)],
     [description |-> "response_mode must be 'params_post' or empty",
      ok |-> params.ResponseMode = LitParamsPost \/ params.ResponseMode = << >>],
     [description |-> "login_hint must look like a valid email address",
      ok |-> emailRE(params.LoginHint)] >>

\* The loop of valid: the description of the first test that is not ok.
RECURSIVE firstFailed(_, _)
firstFailed(tests, i) ==
  IF i > Len(tests) THEN Nil
  ELSE IF ~tests[i].ok THEN tests[i].description
  ELSE firstFailed(tests, i + 1)

\* valid comparing scope and response_type after strings.TrimSpace.
validTrimmed(params) ==
  firstFailed(validTests([params EXCEPT !.Scope = TrimSpace(@),
                                        !.ResponseType = TrimSpace(@)]), 1)

\* valid verifies that all field values are valid.
valid(params) == firstFailed(validTests(params), 1)

(***************************************************************************)
(* Requests.  A URI sent by a relying party is kept as the parts it was    *)
(* written from, scheme sep [user] host [port] [path] [query] [frag]; the  *)
(* program only ever sees Raw(parts), the text.                            *)
(***************************************************************************)
U(scheme, sep, user, host, port, path, query, frag) ==
  [scheme |-> scheme, sep |-> sep, user |-> user, host |-> host, port |-> port,
   path |-> path, query |-> query, frag |-> frag]

Raw(p) == p.scheme \o p.sep \o p.user \o p.host \o p.port \o p.path \o p.query \o p.frag

NoURI == U(<< >>, << >>, << >>, << >>, << >>, << >>, << >>, << >>)

SepAuthority == <<":", "/", "/">>
HostAB == <<"a", ".", "b">>

\* client_id values of the requests.
ClientIDs ==
  { NoURI,
    U(<<"h", "t", "t", "p">>, SepAuthority, << >>, HostAB, << >>, << >>, << >>, << >>),
    U(<<"h", "t", "t", "p">>, SepAuthority, << >>, HostAB, << >>, <<"/">>, << >>, << >>),
    U(<<"h", "t", "t", "p">>, SepAuthority, << >>, HostAB, <<":", "8", "0">>, << >>, << >>, << >>),
    U(<<"h", "t", "t", "p", "s">>, SepAuthority, << >>, HostAB, <<":", "8", "0">>, << >>, << >>, << >>),
    U(<<"H", "T", "T", "P">>, SepAuthority, << >>, HostAB, << >>, << >>, << >>, << >>),
    U(<<"w", "s">>, SepAuthority, << >>, HostAB, << >>, << >>, << >>, << >>) }

\* redirect_uri values of the requests.
RedirectURIs ==
  { NoURI,
    U(<<"h", "t", "t", "p">>, SepAuthority, << >>, HostAB, << >>, <<"/", "c", "b">>, << >>, << >>),
    U(<<"h", "t", "t", "p">>, SepAuthority, << >>, <<"a", ".", "b", ".", "e">>, << >>, <<"/", "c", "b">>, << >>, << >>),
    U(<<"h", "t", "t", "p">>, SepAuthority, <<"a", ".", "b", "@">>, <<"e">>, << >>, <<"/", "c", "b">>, << >>, << >>),
    U(<<"h", "t", "t", "p", "s">>, SepAuthority, << >>, HostAB, << >>, <<"/", "c", "b">>, << >>, << >>),
    U(<<"h", "t", "t", "p", "s">>, SepAuthority, << >>, HostAB, <<":", "8", "0">>, <<"/", "c", "b">>, <<"?", "q", "=", "1">>, <<"#", "f">>),
    U(<<"h", "t", "t", "p">>, SepAuthority, << >>, <<"A", ".", "b">>, << >>, <<"/", "c", "b">>, << >>, << >>),
    U(<<"h", "t", "t", "p">>, <<":">>, << >>, HostAB, << >>, << >>, << >>, << >>) }

LitFormPost == <<"f", "o", "r", "m", "_", "p", "o", "s", "t">>

Scopes == { LitOpenidEmail, << >>, <<" ">>, <<" ", "o", "p", "e", "n", "i", "d", " ", "e", "m", "a", "i", "l", " ">>, <<"o", "p", "e", "n", "i", "d">> }
ResponseTypes == { LitIdToken, << >>, <<"c", "o", "d", "e">>, <<"i", "d", "_", "t", "o", "k", "e", "n", " ">> }
LoginHints == { <<"a", "@", "b", ".", "e">>, << >>, <<"a", ".", "b">>, <<"a", "/", "@", "b">> }
ResponseModes == { << >>, LitFormPost, LitParamsPost }
States == { << >>, <<"x">> }
Nonces == { << >>, <<"n">> }

\* The requests of the model: the fields as sent.
Requests ==
  { [Scope |-> sc, ResponseType |-> rt, ClientID |-> cid, RedirectURI |-> ruri,
     LoginHint |-> lh, ResponseMode |-> rm, State |-> st, Nonce |-> no] :
      sc \in Scopes, rt \in ResponseTypes, cid \in ClientIDs, ruri \in RedirectURIs,
      lh \in LoginHints, rm \in ResponseModes, st \in States, no \in Nonces }

\* What a request body can be to c.Bind: well formed; unparsable as a whole;
\* or well formed but for the optional member state, which cannot be set.
Bodies == {"ok", "malformed", "state not a string"}

\* bindErr := c.Bind(&form).  Bind fills the form from the body and then
\* checks the `binding:"required"` tags: a required field left "" is an
\* error.  A body that does not parse leaves the form zero; a member that
\* cannot be set is skipped, the rest is filled in, and the error returned.
RequiredUnset(text) ==
  \E i \in 1..Len(AuthRequestFields) :
    /\ AuthRequestFields[i].binding = "required"
    /\ text[AuthRequestFields[i].field] = << >>

BindText(text, body) ==
  IF body = "malformed"
    THEN [form |-> ZeroAuthRequest, err |-> "bind: malformed request body"]
  ELSE IF body = "state not a string"
    THEN [form |-> [text EXCEPT !.State = << >>], err |-> "bind: cannot set field State"]
  ELSE [form |-> text,
        err |-> IF RequiredUnset(text) THEN "bind: required field is empty" ELSE Nil]

\* The request as text: what the program receives.
Text(req) ==
  [req EXCEPT !.ClientID = Raw(req.ClientID), !.RedirectURI = Raw(req.RedirectURI)]

Bind(req, body) == BindText(Text(req), body)

(***************************************************************************)
(* openid_provider.go: the authorize handler, one request at a time.       *)
(***************************************************************************)
VARIABLES
  pc,       \* where the handler is: idle, complete, valid, bindErr, auth, done
  form,     \* var form AuthRequest
  bindErr,  \* the error of c.Bind
  resp,     \* the response: the status set and the bodies written
  calls,    \* history: the checks the handler has called for this request
  sent,     \* history: the request as sent (its URIs in parts)
  fn,       \* the function a function check has applied ("" before)
  arg,      \* the arguments of the function check
  ret,      \* its result
  mainpc,   \* where main is: start, generate, routes, run, serving, panicked, exited
  port,     \* main's port
  rsakey,   \* main's rsakey
  keygens,  \* history: what each call of rsa.GenerateKey returned
  router,   \* main's router: the handler registered for each method and path
  conns,    \* the requests being served, each by a goroutine of its own
  log       \* history: the responses sent by the discovery and keyset handlers

vars == <<pc, form, bindErr, resp, calls, sent, fn, arg, ret,
          mainpc, port, rsakey, keygens, router, conns, log>>

\* The state of one authorize handler and of a function applied alone, and
\* the state of the process.
handlerVars == <<pc, form, bindErr, resp, calls, sent, fn, arg, ret>>
serverVars == <<mainpc, port, rsakey, keygens, router, conns, log>>

NoResponse == [status |-> 0, body |-> << >>]

NoArg == [uri |-> NoURI, origin |-> NoURI, pair |-> FALSE, email |-> << >>]

\* fail sets the status code and response body for handling bad requests:
\* c.JSON(400, gin.H{"error": errType, "message": errMsg}).
fail(c, errType, errMsg) ==
  [status |-> 400,
   body |-> Append(c.body, [kind |-> "json", error |-> errType, message |-> errMsg])]

\* c.String(500, "FIXME: Unimplemented")
Unimplemented(c) ==
  [status |-> 500,
   body |-> Append(c.body, [kind |-> "text", text |-> "FIXME: Unimplemented"])]

\* The requests the server works on at the same time, each in a goroutine
\* of its own.
MaxConns == 2

Conns == 1..MaxConns

\* rsakey before rsa.GenerateKey has returned a key: no key.
NoKey == [N |-> 0, E |-> 0, D |-> 0]

\* A goroutine of the server with no request.
IdleConn ==
  [handler |-> "", pc |-> "idle", sent |-> ZeroAuthRequest, body |-> "",
   form |-> ZeroAuthRequest, bindErr |-> Nil, resp |-> NoResponse]

\* The process before main has run.
NotStarted ==
  /\ mainpc = "start"
  /\ port = ""
  /\ rsakey = NoKey
  /\ keygens = << >>
  /\ router = {}
  /\ conns = [i \in Conns |-> IdleConn]
  /\ log = {}

IdleHandler ==
  /\ pc = "idle"
  /\ form = ZeroAuthRequest
  /\ bindErr = Nil
  /\ resp = NoResponse
  /\ calls = << >>
  /\ sent = ZeroAuthRequest

Init ==
  /\ IdleHandler
  /\ NotStarted
  /\ fn = ""
  /\ arg = NoArg
  /\ ret = FALSE

\* The form and the error of c.Bind are stored; a failed Bind has already
\* set the status 400 (c.AbortWithError).
Bound(b) ==
  /\ form' = b.form
  /\ bindErr' = b.err
  /\ resp' = IF b.err # Nil THEN [resp EXCEPT !.status = 400] ELSE resp

\* if err != nil { fail(c, errType, err.Error()); return }, and otherwise on
\* to the next statement.
FailOrGoOn(err, errType, next) ==
  IF err # Nil
    THEN /\ resp' = fail(resp, errType, err)
         /\ pc' = "done"
    ELSE /\ resp' = resp
         /\ pc' = next

\* bindErr := c.Bind(&form)
AuthorizeBind ==
  /\ pc = "idle"
  /\ \E req \in Requests, body \in Bodies :
       /\ Bound(Bind(req, body))
       /\ sent' = req
  /\ pc' = "complete"
  /\ UNCHANGED <<calls, fn, arg, ret, serverVars>>

\* authorize testing bindErr before the fields.
AuthorizeCompleteBindFirst ==
  /\ pc = "complete"
  /\ IF bindErr # Nil
       THEN FailOrGoOn(bindErr, "Unknown Error", "valid")
       ELSE FailOrGoOn(complete(form), "Missing Field", "valid")
  /\ calls' = Append(calls, "complete")
  /\ UNCHANGED <<form, bindErr, sent, fn, arg, ret, serverVars>>

\* if fieldsErr := form.complete(); fieldsErr != nil { fail(...); return }
AuthorizeComplete ==
  /\ pc = "complete"
  /\ FailOrGoOn(complete(form), "Missing Field", "valid")
  /\ calls' = Append(calls, "complete")
  /\ UNCHANGED <<form, bindErr, sent, fn, arg, ret, serverVars>>

\* if validErr := form.valid(); validErr != nil { fail(...); return }
AuthorizeValid ==
  /\ pc = "valid"
  /\ FailOrGoOn(valid(form), "Bad Value", "bindErr")
  /\ calls' = Append(calls, "valid")
  /\ UNCHANGED <<form, bindErr, sent, fn, arg, ret, serverVars>>

\* if bindErr != nil { fail(c, "Unknown Error", bindErr.Error()); return }
AuthorizeBindErr ==
  /\ pc = "bindErr"
  /\ FailOrGoOn(bindErr, "Unknown Error", "auth")
  /\ UNCHANGED <<form, bindErr, calls, sent, fn, arg, ret, serverVars>>

\* TODO: Trigger an appropriate authentication method
\* c.String(500, "FIXME: Unimplemented")
AuthorizeUnimplemented ==
  /\ pc = "auth"
  /\ resp' = Unimplemented(resp)
  /\ pc' = "done"
  /\ UNCHANGED <<form, bindErr, calls, sent, fn, arg, ret, serverVars>>

\* The handler has returned; the next request starts from a fresh context.
AuthorizeReturn ==
  /\ pc = "done"
  /\ pc' = "idle"
  /\ form' = ZeroAuthRequest
  /\ bindErr' = Nil
  /\ resp' = NoResponse
  /\ calls' = << >>
  /\ sent' = ZeroAuthRequest
  /\ UNCHANGED <<fn, arg, ret, serverVars>>

Next ==
  \/ AuthorizeBind
  \/ AuthorizeComplete
  \/ AuthorizeValid
  \/ AuthorizeBindErr
  \/ AuthorizeUnimplemented
  \/ AuthorizeReturn

Spec == Init /\ [][Next]_vars

(***************************************************************************)
(* The functions of validation.go, each applied to arguments drawn from    *)
(* bounded sets: validURI and onlyOrigin to one URI, containedBy to a URI  *)
(* and an origin, emailRE to a string.                                     *)
(***************************************************************************)
\* The URIs validURI and onlyOrigin are applied to: every combination of
\* these parts.
URISchemes == { <<"h", "t", "t", "p">>, <<"h", "t", "t", "p", "s">>, <<"H", "T", "T", "P">>, <<"w", "s">>, << >> }
URISeps == { SepAuthority, <<":">> }
URIUsers == { << >>, <<"@">>, <<"u", ":", "p", "@">> }
URIHosts == { << >>, HostAB, <<"a", "-", "1">>, <<"a", "_", "b">>, <<":", ":", "1">>, <<"[", ":", ":", "1", "]">>, <<"a", "^">> }
URIPorts == { << >>, <<":", "8", "0">>, <<":", "4", "4", "3">>, <<":", "8", "0", "8", "0">>, <<":">>, <<":", "8", "0", ":", "8", "0">> }
URIPaths == { << >>, <<"/">>, <<"/", "p">>, <<"/", "%", "z", "z">> }
URIQueries == { << >>, <<"?">>, <<"?", "q", "=", "1">> }
URIFrags == { << >>, <<"#">>, <<"#", "f">> }

URIs ==
  { U(scheme, sep, user, host, hostport, path, query, frag) :
      scheme \in URISchemes, sep \in URISeps, user \in URIUsers, host \in URIHosts,
      hostport \in URIPorts, path \in URIPaths, query \in URIQueries, frag \in URIFrags }

\* The URIs and the origins containedBy is applied to.
InnerURIs ==
  { U(scheme, SepAuthority, user, host, hostport, path, query, << >>) :
      scheme \in { <<"h", "t", "t", "p">>, <<"h", "t", "t", "p", "s">>, <<"H", "T", "T", "P">> }, user \in { << >>, <<"a", ".", "b", "@">> },
      host \in { HostAB, <<"a", ".", "b", ".", "e">>, <<"A", ".", "b">>, <<"e">> }, hostport \in { << >>, <<":", "8", "0">>, <<":", "8", "0", "8", "0">> },
      path \in { << >>, <<"/", "p">> }, query \in { << >>, <<"?">> } }

Origins ==
  { U(scheme, SepAuthority, << >>, host, hostport, path, query, frag) :
      scheme \in { <<"h", "t", "t", "p">>, <<"h", "t", "t", "p", "s">>, <<"H", "T", "T", "P">> }, host \in { HostAB, <<"A", ".", "b">> },
      hostport \in { << >>, <<":", "8", "0">>, <<":", "8", "0", "8", "0">> }, path \in { << >>, <<"/">> },
      query \in { << >>, <<"?">> }, frag \in { << >>, <<"#">> } }

InitURI ==
  /\ IdleHandler
  /\ NotStarted
  /\ fn = ""
  /\ ret = FALSE
  /\ \/ \E u \in URIs : arg = [NoArg EXCEPT !.uri = u]
     \/ \E u \in InnerURIs, o \in Origins :
          arg = [NoArg EXCEPT !.uri = u, !.origin = o, !.pair = TRUE]

CallValidURI ==
  /\ fn = ""
  /\ ~arg.pair
  /\ fn' = "validURI"
  /\ ret' = validURI(Raw(arg.uri))
  /\ UNCHANGED <<pc, form, bindErr, resp, calls, sent, arg, serverVars>>

CallOnlyOrigin ==
  /\ fn = ""
  /\ ~arg.pair
  /\ fn' = "onlyOrigin"
  /\ ret' = onlyOrigin(Raw(arg.uri))
  /\ UNCHANGED <<pc, form, bindErr, resp, calls, sent, arg, serverVars>>

CallContainedBy ==
  /\ fn = ""
  /\ arg.pair
  /\ fn' = "containedBy"
  /\ ret' = containedBy(Raw(arg.uri), Raw(arg.origin))
  /\ UNCHANGED <<pc, form, bindErr, resp, calls, sent, arg, serverVars>>

NextURI ==
  \/ CallValidURI
  \/ CallOnlyOrigin
  \/ CallContainedBy

SpecURI == InitURI /\ [][NextURI]_vars

\* The strings emailRE is applied to: every string of at most MaxLen
\* characters of EmailAlphabet.
MaxLen == 4

EmailAlphabet == {"a", "Z", "1", "@", ".", "+", "-", "_", ":", "/", "<", "=", "?"}

EmailStrings == UNION { [1..n -> EmailAlphabet] : n \in 0..MaxLen }

InitEmail ==
  /\ IdleHandler
  /\ NotStarted
  /\ fn = ""
  /\ ret = FALSE
  /\ \E e \in EmailStrings : arg = [NoArg EXCEPT !.email = e]

CallEmailRE ==
  /\ fn = ""
  /\ fn' = "emailRE"
  /\ ret' = emailRE(arg.email)
  /\ UNCHANGED <<pc, form, bindErr, resp, calls, sent, arg, serverVars>>

NextEmail == CallEmailRE

SpecEmail == InitEmail /\ [][NextEmail]_vars

(***************************************************************************)
(* The process: main generates the key, registers the routes and serves;   *)
(* the handlers of discovery, keyset and authorize run in one goroutine    *)
(* for each request.                                                       *)
(***************************************************************************)
ORIGIN == "laoidc.herokuapp.com"
ADDRESS == "0.0.0.0"
PORT == 3333

\* fmt.Sprintf("%d", n)
DecimalDigits == <<"0", "1", "2", "3", "4", "5", "6", "7", "8", "9">>

RECURSIVE FormatInt(_)
FormatInt(n) ==
  IF n < 10 THEN DecimalDigits[n + 1]
  ELSE FormatInt(n \div 10) \o DecimalDigits[(n % 10) + 1]

\* os.Getenv("PORT"): unset, or set by the environment.
EnvPorts == {"", "8080"}

\* What rsa.GenerateKey(rand.Reader, 2048) can return: a key (here of a
\* few bits: the modulus N, the public exponent E, the private exponent D),
\* or an error.
Keys == { [N |-> 33, E |-> 3, D |-> 7], [N |-> 55, E |-> 3, D |-> 27] }

GenerateKeyResults ==
  { [key |-> k, err |-> Nil] : k \in Keys }
    \cup { [key |-> NoKey, err |-> "crypto/rand: read failed"] }

\* rsakey.PublicKey
PublicKey(key) == [N |-> key.N, E |-> key.E]

\* fmt.Sprintf("%x", sha1 of n.Bytes()), for the numbers of Keys.
Sha1Hex(n) ==
  CASE n = 33 -> "0ab8318acaf6e678dd02e2b5c343ed41111b393d"
    [] n = 55 -> "902ba3cda1883801594b6e1b452790cc53948fda"

\* base64.URLEncoding without padding of n.Bytes(), as go-jose writes the
\* numbers of a key.
Base64URL(n) ==
  CASE n = 3 -> "Aw"
    [] n = 7 -> "Bw"
    [] n = 27 -> "Gw"
    [] n = 33 -> "IQ"
    [] n = 55 -> "Nw"

\* generateKid deterministically generates a JWK Key ID by hashing a public
\* key.
generateKid(key) == Sha1Hex(key.N)

\* discovery with the two paths taken one for the other.
discoverySwapped(origin, jwksPath, authPath) ==
  [issuer |-> "https://" \o origin,
   authorization_endpoint |-> "https://" \o origin \o jwksPath,
   jwks_uri |-> "https://" \o origin \o authPath,
   scopes_supported |-> <<"openid", "email">>,
   claims_supported |-> <<"aud", "email", "email_verified", "exp", "iat", "iss", "sub">>,
   response_types_supported |-> <<"id_token">>,
   response_modes_supported |-> <<"form_post">>,
   grant_types_supports |-> <<"implicit">>,
   subject_types_supported |-> <<"public">>,
   id_token_signing_alg_values_supported |-> <<"RS256">>]

\* The document of discovery.
discovery(origin, jwksPath, authPath) ==
  [issuer |-> "https://" \o origin,
   authorization_endpoint |-> "https://" \o origin \o authPath,
   jwks_uri |-> "https://" \o origin \o jwksPath,
   scopes_supported |-> <<"openid", "email">>,
   claims_supported |-> <<"aud", "email", "email_verified", "exp", "iat", "iss", "sub">>,
   response_types_supported |-> <<"id_token">>,
   response_modes_supported |-> <<"form_post">>,
   grant_types_supports |-> <<"implicit">>,
   subject_types_supported |-> <<"public">>,
   id_token_signing_alg_values_supported |-> <<"RS256">>]

\* keyset with an empty KeyID.
keysetNoKid(pubkey) ==
  [Keys |-> << [Key |-> "&rsakey.PublicKey", KeyID |-> "",
                Algorithm |-> "RS256", Use |-> "sig"] >>]

\* The jwkSet of keyset.  Key is the pointer keyset is given; KeyID is
\* computed from the key it points to when keyset is called.
keyset(pubkey) ==
  [Keys |-> << [Key |-> "&rsakey.PublicKey", KeyID |-> generateKid(pubkey),
                Algorithm |-> "RS256", Use |-> "sig"] >>]

\* A JsonWebKey of a public RSA key as c.JSON writes it; pubkey is what Key
\* points to when it is written.
MarshalJWK(k, pubkey) ==
  [kty |-> "RSA", n |-> Base64URL(pubkey.N), e |-> Base64URL(pubkey.E),
   kid |-> k.KeyID, alg |-> k.Algorithm, use |-> k.Use]

\* A JsonWebKeySet as c.JSON writes it.
MarshalJWKSet(jwkSet, pubkey) ==
  [keys |-> [i \in 1..Len(jwkSet.Keys) |-> MarshalJWK(jwkSet.Keys[i], pubkey)]]

\* router.GET(path, handler), router.POST(path, handler)
Route(method, path, kind, closure) ==
  [method |-> method, path |-> path, handler |-> [kind |-> kind, closure |-> closure]]

jwksPath == "/jwks.json"
authPath == "/authorize"

\* oidcAddRoutes adds OpenID Connect endpoints to an existing gin.IRouter.
oidcAddRoutes(origin, key) ==
  { Route("GET", "/.well-known/openid-configuration", "discovery",
          discovery(origin, jwksPath, authPath)),
    Route("GET", jwksPath, "keyset", keyset(PublicKey(key))),
    Route("POST", authPath, "authorize", [origin |-> origin]) }

\* port := os.Getenv("PORT"), and PORT if it is not set.
MainPort ==
  /\ mainpc = "start"
  /\ \E env \in EnvPorts :
       port' = IF Len(env) <= 0 THEN FormatInt(PORT) ELSE env
  /\ mainpc' = "generate"
  /\ UNCHANGED <<rsakey, keygens, router, conns, log, handlerVars>>

\* main generating a second key when the first call fails.
MainGenerateKeyRetry ==
  /\ mainpc = "generate"
  /\ \E r \in GenerateKeyResults, k \in Keys :
       /\ keygens' = IF r.err # Nil THEN keygens \o <<r, [key |-> k, err |-> Nil]>>
                     ELSE Append(keygens, r)
       /\ rsakey' = IF r.err # Nil THEN k ELSE r.key
  /\ mainpc' = "routes"
  /\ UNCHANGED <<port, router, conns, log, handlerVars>>

\* rsakey, err := rsa.GenerateKey(rand.Reader, 2048)
\* if err != nil { panic(err) }
MainGenerateKey ==
  /\ mainpc = "generate"
  /\ \E r \in GenerateKeyResults :
       /\ keygens' = Append(keygens, r)
       /\ rsakey' = r.key
       /\ mainpc' = IF r.err # Nil THEN "panicked" ELSE "routes"
  /\ UNCHANGED <<port, router, conns, log, handlerVars>>

\* router := gin.Default(); router.GET("/", ...); oidcAddRoutes(router,
\* ORIGIN, rsakey)
MainRoutes ==
  /\ mainpc = "routes"
  /\ router' = {Route("GET", "/", "hello", [text |-> "Hello, World!"])}
                 \cup oidcAddRoutes(ORIGIN, rsakey)
  /\ mainpc' = "run"
  /\ UNCHANGED <<port, rsakey, keygens, conns, log, handlerVars>>

\* router.Run(ADDRESS:port): the server listens and serves, or cannot
\* listen, and then Run returns and main with it.
MainRun ==
  /\ mainpc = "run"
  /\ mainpc' \in {"serving", "exited"}
  /\ UNCHANGED <<port, rsakey, keygens, router, conns, log, handlerVars>>

\* The authorize requests sent to the server: one with nothing wrong, one
\* with no scope, one with its redirect_uri outside its client_id.
GoodRequest ==
  [Scope |-> LitOpenidEmail, ResponseType |-> LitIdToken,
   ClientID |-> U(SchemeHTTP, SepAuthority, << >>, HostAB, << >>, << >>, << >>, << >>),
   RedirectURI |-> U(SchemeHTTP, SepAuthority, << >>, HostAB, << >>, <<"/", "c", "b">>, << >>, << >>),
   LoginHint |-> <<"a", "@", "b", ".", "e">>,
   ResponseMode |-> << >>, State |-> << >>, Nonce |-> << >>]

ServedRequests ==
  { GoodRequest,
    [GoodRequest EXCEPT !.Scope = << >>],
    [GoodRequest EXCEPT !.RedirectURI.host = <<"a", ".", "b", ".", "e">>] }

\* The method and path of a request: the four routes, and one that is not
\* registered.
RequestLines ==
  { <<"GET", "/">>, <<"GET", "/.well-known/openid-configuration">>,
    <<"GET", "/jwks.json">>, <<"POST", "/authorize">>, <<"GET", "/authorize">> }

\* The handlers the router has for a method and path.
Registered(line) == {r \in router : r.method = line[1] /\ r.path = line[2]}

\* The handler closure of a kind, as registered.
Closure(kind) == (CHOOSE r \in router : r.handler.kind = kind).handler.closure

\* c.JSON(200, value)
JSON200(c, value) ==
  [status |-> 200, body |-> Append(c.body, [kind |-> "json", value |-> value])]

\* c.String(status, text)
String(c, status, text) ==
  [status |-> status, body |-> Append(c.body, [kind |-> "text", text |-> text])]

\* The goroutine i goes on as c.
Goes(i, c) ==
  /\ conns' = [conns EXCEPT ![i] = c]
  /\ UNCHANGED <<mainpc, port, rsakey, keygens, router, handlerVars>>

\* The handler of goroutine i is at pc.
At(i, kind, at) == conns[i].handler = kind /\ conns[i].pc = at

\* The router dispatches a request to the handler registered for its
\* method and path, in a goroutine of its own; 404 if there is none.
Dispatch(i, line, req, body) ==
  Goes(i, [IdleConn EXCEPT
             !.handler = IF Registered(line) = {} THEN "notfound"
                         ELSE (CHOOSE r \in Registered(line) : TRUE).handler.kind,
             !.pc = "handler", !.sent = req, !.body = body])

Accept(i) ==
  /\ mainpc = "serving"
  /\ conns[i].pc = "idle"
  /\ \E line \in RequestLines :
       IF line = <<"POST", authPath>>
         THEN \E req \in ServedRequests, body \in Bodies : Dispatch(i, line, req, body)
         ELSE Dispatch(i, line, ZeroAuthRequest, "")
  /\ UNCHANGED log

\* router.GET("/", ...): c.String(200, "Hello, World!")
ServeHello(i) ==
  /\ At(i, "hello", "handler")
  /\ Goes(i, [conns[i] EXCEPT !.resp = String(@, 200, Closure("hello").text),
                              !.pc = "done"])
  /\ UNCHANGED log

\* No route: gin answers 404.
ServeNotFound(i) ==
  /\ At(i, "notfound", "handler")
  /\ Goes(i, [conns[i] EXCEPT !.resp = String(@, 404, "404 page not found"),
                              !.pc = "done"])
  /\ UNCHANGED log

\* The handler of discovery: c.JSON(200, document)
ServeDiscovery(i) ==
  /\ At(i, "discovery", "handler")
  /\ Goes(i, [conns[i] EXCEPT !.resp = JSON200(@, Closure("discovery")),
                              !.pc = "done"])
  /\ UNCHANGED log

\* The handler of keyset: c.JSON(200, jwkSet)
ServeKeyset(i) ==
  /\ At(i, "keyset", "handler")
  /\ Goes(i, [conns[i] EXCEPT
                !.resp = JSON200(@, MarshalJWKSet(Closure("keyset"), PublicKey(rsakey))),
                !.pc = "done"])
  /\ UNCHANGED log

\* The form and the error of c.Bind in the goroutine's own variables.
BoundIn(c, b) ==
  [c EXCEPT !.form = b.form, !.bindErr = b.err,
            !.resp = IF b.err # Nil THEN [@ EXCEPT !.status = 400] ELSE @,
            !.pc = "complete"]

\* if err != nil { fail(c, errType, err.Error()); return }
FailOrGoOnIn(c, err, errType, next) ==
  IF err # Nil
    THEN [c EXCEPT !.resp = fail(@, errType, err), !.pc = "done"]
    ELSE [c EXCEPT !.pc = next]

\* authorize with form a variable of the package, shared by the goroutines.
ServeAuthorizeBindShared(i) ==
  /\ At(i, "authorize", "handler")
  /\ conns' = [j \in Conns |->
                 IF j = i THEN BoundIn(conns[i], Bind(conns[i].sent, conns[i].body))
                 ELSE IF conns[j].handler = "authorize" /\ conns[j].pc # "handler"
                   THEN [conns[j] EXCEPT !.form = Bind(conns[i].sent, conns[i].body).form]
                   ELSE conns[j]]
  /\ UNCHANGED <<mainpc, port, rsakey, keygens, router, log, handlerVars>>

\* var form AuthRequest; bindErr := c.Bind(&form)
ServeAuthorizeBind(i) ==
  /\ At(i, "authorize", "handler")
  /\ Goes(i, BoundIn(conns[i], Bind(conns[i].sent, conns[i].body)))
  /\ UNCHANGED log

ServeAuthorizeComplete(i) ==
  /\ At(i, "authorize", "complete")
  /\ Goes(i, FailOrGoOnIn(conns[i], complete(conns[i].form), "Missing Field", "valid"))
  /\ UNCHANGED log

ServeAuthorizeValid(i) ==
  /\ At(i, "authorize", "valid")
  /\ Goes(i, FailOrGoOnIn(conns[i], valid(conns[i].form), "Bad Value", "bindErr"))
  /\ UNCHANGED log

ServeAuthorizeBindErr(i) ==
  /\ At(i, "authorize", "bindErr")
  /\ Goes(i, FailOrGoOnIn(conns[i], conns[i].bindErr, "Unknown Error", "auth"))
  /\ UNCHANGED log

ServeAuthorizeUnimplemented(i) ==
  /\ At(i, "authorize", "auth")
  /\ Goes(i, [conns[i] EXCEPT !.resp = Unimplemented(@), !.pc = "done"])
  /\ UNCHANGED log

\* The handler has returned and the response is sent; the goroutine ends.
Respond(i) ==
  /\ conns[i].pc = "done"
  /\ log' = IF conns[i].handler \in {"discovery", "keyset"}
              THEN log \cup {[handler |-> conns[i].handler, resp |-> conns[i].resp]}
              ELSE log
  /\ Goes(i, IdleConn)

NextServer ==
  \/ MainPort
  \/ MainGenerateKey
  \/ MainRoutes
  \/ MainRun
  \/ \E i \in Conns :
       \/ Accept(i)
       \/ ServeHello(i)
       \/ ServeNotFound(i)
       \/ ServeDiscovery(i)
       \/ ServeKeyset(i)
       \/ ServeAuthorizeBind(i)
       \/ ServeAuthorizeComplete(i)
       \/ ServeAuthorizeValid(i)
       \/ ServeAuthorizeBindErr(i)
       \/ ServeAuthorizeUnimplemented(i)
       \/ Respond(i)

InitServer ==
  /\ IdleHandler
  /\ fn = ""
  /\ arg = NoArg
  /\ ret = FALSE
  /\ NotStarted

SpecServer == InitServer /\ [][NextServer]_vars

(***************************************************************************)
(* What the specification says of a URI, read off the parts it is written  *)
(* from and not off the program's parse of it.                             *)
(***************************************************************************)
\* The scheme, with the case rule of URI parsing: a scheme is compared in
\* lower case.
WrittenScheme(p) == ToLower(p.scheme)

\* scheme "://" ...: a hierarchical URI, not scheme ":" opaque.
WrittenHierarchical(p) == p.sep = SepAuthority

\* The host is a non-empty run of letters, digits, hyphens and dots, and the
\* port, if any, is ':' and one or more digits.
WrittenHostGrammar(p) ==
  /\ p.host # << >>
  /\ \A i \in 1..Len(p.host) : IsAlnum(p.host[i]) \/ p.host[i] \in {"-", "."}
  /\ \/ p.port = << >>
     \/ /\ Len(p.port) >= 2
        /\ p.port[1] = ":"
        /\ \A i \in 2..Len(p.port) : IsDigit(p.port[i])

\* ':80' with http, ':443' with https.
WrittenDefaultPort(p) ==
  \/ WrittenScheme(p) = SchemeHTTP /\ p.port = Port80
  \/ WrittenScheme(p) = SchemeHTTPS /\ p.port = Port443

\* A userinfo is written as soon as its '@' is, even with nothing before it.
WrittenUserinfo(p) == p.user # << >>

\* The text of the URI parses at all.
Parses(p) == ~Parse(Raw(p)).err

WrittenValid(p) ==
  /\ Parses(p)
  /\ WrittenHierarchical(p)
  /\ WrittenScheme(p) \in {SchemeHTTP, SchemeHTTPS}
  /\ WrittenHostGrammar(p)
  /\ ~WrittenDefaultPort(p)
  /\ ~WrittenUserinfo(p)

\* The path is empty, and so are the query (what follows '?') and the
\* fragment (what follows '#').
WrittenOriginOnly(p) ==
  /\ WrittenValid(p)
  /\ p.path = << >>
  /\ p.query \in {<< >>, <<"?">>}
  /\ p.frag \in {<< >>, <<"#">>}

\* The same scheme and the same host[:port], byte for byte.
WrittenSameAuthority(p, o) ==
  /\ WrittenScheme(p) = WrittenScheme(o)
  /\ p.host \o p.port = o.host \o o.port

\* A bracketed or bare IPv6 literal as host.
WrittenIPv6(p) == ContainsChar(p.host, "[") \/ Count(p.host \o p.port, ":") >= 2

\* C5: validURI(uri) is true exactly when the text parses, is not opaque, has
\* the scheme http or https (as parsed: in lower case), a non-empty host of
\* letters, digits, hyphens and dots with an optional ':port', not the
\* default port of its scheme, and no userinfo, not even an empty one.  It
\* is false of every IPv6 literal host, and no path, query or fragment that
\* parses changes it.
C5_ValidURI ==
  fn = "validURI" =>
    /\ ret = WrittenValid(arg.uri)
    /\ WrittenIPv6(arg.uri) \/ WrittenUserinfo(arg.uri) \/ ~WrittenHierarchical(arg.uri)
         => ~ret
    /\ ret = validURI(Raw([arg.uri EXCEPT !.path = << >>, !.query = << >>,
                                          !.frag = << >>]))
         \/ ~Parses(arg.uri)

\* validURI has accepted a URI written with a port, a path, a query and a
\* fragment.
C5_Witness ==
  /\ fn = "validURI"
  /\ ret
  /\ arg.uri.port # << >>
  /\ arg.uri.path # << >>
  /\ Len(arg.uri.query) > 1
  /\ Len(arg.uri.frag) > 1

\* C9: onlyOrigin(uri) is true exactly when validURI(uri) holds and the path,
\* the query and the fragment of the URI are all empty; a URI with a path,
\* be it a lone '/', with a query or with a fragment is not origin-only.
C9_OnlyOrigin ==
  fn = "onlyOrigin" =>
    /\ ret = WrittenOriginOnly(arg.uri)
    /\ ret = ( /\ validURI(Raw(arg.uri))
               /\ arg.uri.path = << >>
               /\ Len(arg.uri.query) <= 1
               /\ Len(arg.uri.frag) <= 1 )

\* onlyOrigin has refused a valid URI whose only addition is the path "/".
C9_Witness ==
  /\ fn = "onlyOrigin"
  /\ ~ret
  /\ WrittenValid(arg.uri)
  /\ arg.uri.path = <<"/">>
  /\ arg.uri.query = << >>
  /\ arg.uri.frag = << >>

WrittenEmail(s) ==
  /\ Len(s) >= 1
  /\ IsAlnum(s[1])
  /\ Count(s, "@") = 1
  /\ \A i \in 2..(Index(s, "@") - 1) : IsAlnum(s[i]) \/ s[i] \in {"+", "-", "_", "."}
  /\ Index(s, "@") < Len(s)
  /\ \A i \in (Index(s, "@") + 1)..Len(s) : IsAlnum(s[i]) \/ s[i] \in {"-", "."}

\* C7: emailRE accepts a string exactly when it is in the specified grammar
\* of login_hint.
C7_EmailGrammar == fn = "emailRE" => ret = WrittenEmail(arg.email)

(***************************************************************************)
(* The authorize handler.                                                  *)
(***************************************************************************)
\* The body the handler has written as its i-th is a JSON error of the kind.
WroteError(i, errType) ==
  /\ Len(resp.body) >= i
  /\ resp.body[i].kind = "json"
  /\ resp.body[i].error = errType

\* The response is exactly the one failure fail(c, errType, errMsg) writes.
FailedWith(errType, errMsg) ==
  resp = [status |-> 400,
          body |-> <<[kind |-> "json", error |-> errType, message |-> errMsg]>>]

\* complete() and valid() have both been called and have both returned nil.
PassedValidation ==
  /\ calls = <<"complete", "valid">>
  /\ ~WroteError(1, "Missing Field")
  /\ ~WroteError(1, "Bad Value")

RequiredFields == <<"Scope", "ResponseType", "ClientID", "RedirectURI", "LoginHint">>
RequiredNames == <<"scope", "response_type", "client_id", "redirect_uri", "login_hint">>

\* Nothing but whitespace, if anything at all.
Blank(v) == \A i \in 1..Len(v) : IsSpace(v[i])

BlankRequired == {i \in 1..Len(RequiredFields) : Blank(form[RequiredFields[i]])}

FirstBlankRequired == CHOOSE i \in BlankRequired : \A j \in BlankRequired : i <= j

\* C3: once the completeness phase has run, a request with a blank required
\* field has failed with the Missing Field error naming the first such
\* field, and valid() has not been called for it; a request with no blank
\* required field gets no Missing Field error, whatever its optional
\* fields are.
C3_CompletenessFirst ==
  Len(calls) >= 1 =>
    IF BlankRequired # {}
      THEN /\ pc = "done"
           /\ calls = <<"complete">>
           /\ FailedWith("Missing Field", "No value for required field: "
                                            \o RequiredNames[FirstBlankRequired])
      ELSE /\ ~WroteError(1, "Missing Field")
           /\ pc = "valid" \/ Len(calls) = 2

\* A request whose scope is only whitespace, with every other required
\* field present and the optional fields empty, has failed as missing its
\* scope although Bind found no error.
C3_Witness ==
  /\ pc = "done"
  /\ bindErr = Nil
  /\ form.Scope = <<" ">>
  /\ BlankRequired = {1}
  /\ form.ResponseMode = << >> /\ form.State = << >> /\ form.Nonce = << >>
  /\ FailedWith("Missing Field", "No value for required field: scope")

\* C4: the handler reports Unknown Error only for a request with a bind
\* error whose fields are complete and valid; when a bind error and a field
\* error are both present, the response is the field error alone.
C4_FieldErrorsFirst ==
  /\ (\E i \in 1..Len(resp.body) : WroteError(i, "Unknown Error")) =>
       /\ bindErr # Nil
       /\ complete(form) = Nil
       /\ valid(form) = Nil
       /\ calls = <<"complete", "valid">>
       /\ FailedWith("Unknown Error", bindErr)
  /\ pc = "done" /\ bindErr # Nil /\ complete(form) # Nil =>
       FailedWith("Missing Field", complete(form))
  /\ pc = "done" /\ bindErr # Nil /\ complete(form) = Nil /\ valid(form) # Nil =>
       FailedWith("Bad Value", valid(form))

\* A request with a bind error and a bad value has been answered with the
\* bad value.
C4_Witness ==
  /\ pc = "done"
  /\ bindErr # Nil
  /\ complete(form) = Nil
  /\ WroteError(1, "Bad Value")

\* Every value rule but that of response_mode holds of the request.
OtherRulesHold ==
  /\ form.Scope = LitOpenidEmail
  /\ form.ResponseType = LitIdToken
  /\ WrittenOriginOnly(sent.ClientID)
  /\ WrittenValid(sent.RedirectURI)
  /\ WrittenSameAuthority(sent.RedirectURI, sent.ClientID)
  /\ WrittenEmail(form.LoginHint)

\* C6: the value phase accepts response_mode exactly when it is empty or
\* "form_post": of a request that is valid otherwise, valid() returns nil
\* exactly in these two cases.
C6_ResponseModeFormPost ==
  Len(calls) = 2 /\ OtherRulesHold =>
    (PassedValidation <=> form.ResponseMode \in {<< >>, LitFormPost})

\* The descriptions of the value rules, in the order of the value phase.
RuleDescriptions ==
  << "scope must be exactly 'openid email'",
     "response_type must be exactly 'id_token'",
     "client_id must be a valid url. Note: urls must be absolute, must use http or https, and must omit default ports",
     "client_id must not include paths, query values, or fragments",
     "redirect_uri must be a valid url. Note: urls must be absolute, must use http or https, and must omit default ports",
     "redirect_uri must be an absolute url that falls within client_id's origin",
     "response_mode must be 'params_post' or empty",
     "login_hint must look like a valid email address" >>

\* Whether each value rule holds of the request, in the same order, each
\* rule as it is written: response_mode empty or "form_post", login_hint
\* of the email grammar.
RulesHold ==
  << form.Scope = LitOpenidEmail,
     form.ResponseType = LitIdToken,
     WrittenValid(sent.ClientID),
     WrittenOriginOnly(sent.ClientID),
     WrittenValid(sent.RedirectURI),
     /\ WrittenValid(sent.RedirectURI)
     /\ WrittenOriginOnly(sent.ClientID)
     /\ WrittenSameAuthority(sent.RedirectURI, sent.ClientID),
     form.ResponseMode \in {<< >>, LitFormPost},
     WrittenEmail(form.LoginHint) >>

\* The same with the last two rules as the value phase decides them.
RulesHoldOfCode ==
  [RulesHold EXCEPT ![7] = form.ResponseMode \in {<< >>, LitParamsPost},
                    ![8] = emailRE(form.LoginHint)]

FirstOf(set) == CHOOSE i \in set : \A j \in set : i <= j

FailedRules(rules) == {i \in 1..Len(rules) : ~rules[i]}

\* What valid() is to return of the rules: nil, or the description of the
\* first that does not hold.
FirstFailure(rules) ==
  IF FailedRules(rules) = {} THEN Nil
  ELSE RuleDescriptions[FirstOf(FailedRules(rules))]

\* C8: once the value phase has run, valid() has returned nil exactly when
\* every value rule holds, and otherwise the request has failed with the
\* description of the first rule, in the fixed order, that does not hold.
C8_FirstFailingRule ==
  Len(calls) = 2 =>
    /\ valid(form) = FirstFailure(RulesHold)
    /\ IF FailedRules(RulesHold) = {}
         THEN PassedValidation
         ELSE /\ pc = "done"
              /\ FailedWith("Bad Value", FirstFailure(RulesHold))

\* The order of the value phase alone: with response_mode and login_hint
\* decided as the value phase decides them, valid() returns the description
\* of the first rule that does not hold, and nil when all hold.
FirstFailingRuleOfCode ==
  Len(calls) = 2 =>
    /\ valid(form) = FirstFailure(RulesHoldOfCode)
    /\ IF FailedRules(RulesHoldOfCode) = {}
         THEN PassedValidation
         ELSE /\ pc = "done"
              /\ FailedWith("Bad Value", FirstFailure(RulesHoldOfCode))

\* C10: every request gets exactly one outcome: a request that fails the
\* completeness phase, the value phase or binding the status 400 and a body
\* with an error kind and a message, a request that passes them all a
\* success response (200 or 302) delivering the token.
C10_OneOutcome ==
  pc = "done" =>
    /\ Len(resp.body) = 1
    /\ IF complete(form) # Nil \/ valid(form) # Nil \/ bindErr # Nil
         THEN /\ resp.status = 400
              /\ resp.body[1].kind = "json"
              /\ resp.body[1].error # ""
              /\ resp.body[1].message # ""
         ELSE resp.status \in {200, 302}

\* v is lit with whitespace before it or after it.
Padded(v, lit) ==
  /\ Len(v) > Len(lit)
  /\ \E i \in 0..(Len(v) - Len(lit)) :
       /\ SubSeq(v, i + 1, i + Len(lit)) = lit
       /\ \A j \in (1..i) \cup ((i + Len(lit) + 1)..Len(v)) : IsSpace(v[j])

\* The scope or the response_type of the request is right only once
\* trimmed.
ValidOnlyTrimmed ==
  \/ Padded(form.Scope, LitOpenidEmail)
  \/ Padded(form.ResponseType, LitIdToken)

\* Nothing but its scope and response_type can be wrong with the request.
OtherFieldsPass ==
  /\ RulesHoldOfCode[3] /\ RulesHoldOfCode[4] /\ RulesHoldOfCode[5]
  /\ RulesHoldOfCode[6] /\ RulesHoldOfCode[7] /\ RulesHoldOfCode[8]

Responses(kind) ==
  {r.resp : r \in {l \in log : l.handler = kind}}
    \cup {conns[i].resp : i \in {j \in Conns : At(j, kind, "done")}}

\* The entry of a signing key in a published key set: the public numbers of
\* the key, its key ID, RS256 and sig.
PublishedEntry(key) ==
  [kty |-> "RSA", n |-> Base64URL(key.N), e |-> Base64URL(key.E),
   kid |-> Sha1Hex(key.N), alg |-> "RS256", use |-> "sig"]

\* The members of a JSON Web Key that hold private numbers.
PrivateMembers == {"d", "p", "q", "dp", "dq", "qi"}

\* C11: every response of GET /jwks.json is 200 with a key set of exactly
\* one entry: the public half of the one signing key of the process, with
\* the kid generateKid gives of it, alg RS256 and use sig, and no member
\* that holds or equals a private number; all responses are the same.
C11_OnePublicKey ==
  /\ \A r \in Responses("keyset") :
       /\ r.status = 200
       /\ Len(r.body) = 1
       /\ r.body[1].kind = "json"
       /\ Len(r.body[1].value.keys) = 1
       /\ r.body[1].value.keys[1] = PublishedEntry(rsakey)
       /\ r.body[1].value.keys[1].kid = generateKid(PublicKey(rsakey))
       /\ DOMAIN r.body[1].value.keys[1] \cap PrivateMembers = {}
       /\ \A m \in DOMAIN r.body[1].value.keys[1] :
            r.body[1].value.keys[1][m] # Base64URL(rsakey.D)
       /\ rsakey \in Keys
       /\ rsakey = keygens[1].key
  /\ Cardinality(Responses("keyset")) <= 1

\* A key set has been sent, an authorize request has been answered since
\* or is being answered, and a second key set is written.
C11_Witness ==
  /\ \E l \in log : l.handler = "keyset"
  /\ \E i, j \in Conns :
       /\ At(i, "keyset", "done")
       /\ At(j, "authorize", "done")

\* A request has been dispatched to a handler.
SomeRequest == log # {} \/ \E i \in Conns : conns[i].pc # "idle"

\* rsa.GenerateKey has been called once, has returned a key, and rsakey is
\* that key.
KeyGenerated ==
  /\ Len(keygens) = 1
  /\ keygens[1].err = Nil
  /\ keygens[1].key \in Keys
  /\ rsakey = keygens[1].key

\* C12: rsa.GenerateKey is called at most once; routes are registered and
\* requests served only after it has returned a key, and rsakey is that
\* key from then on; when it has failed, main has panicked, with no route
\* registered and no request served.
C12_KeyOnceBeforeServing ==
  /\ Len(keygens) <= 1
  /\ mainpc \in {"routes", "run", "serving", "exited"} => KeyGenerated
  /\ router # {} => KeyGenerated
  /\ SomeRequest => KeyGenerated /\ mainpc = "serving"
  /\ Len(keygens) = 1 /\ keygens[1].err # Nil =>
       /\ mainpc = "panicked"
       /\ rsakey = NoKey
       /\ router = {}
       /\ ~SomeRequest
  /\ mainpc = "panicked" => router = {} /\ ~SomeRequest
  /\ mainpc \in {"start", "generate"} => keygens = << >> /\ router = {} /\ ~SomeRequest

\* Responses have been sent and requests are being served, with the key
\* of the one call of rsa.GenerateKey.
C12_Witness ==
  /\ KeyGenerated
  /\ log # {}
  /\ \A i \in Conns : conns[i].pc # "idle"

\* The context of a request once c.Bind has returned b.
AloneBound(b) ==
  IF b.err # Nil THEN [NoResponse EXCEPT !.status = 400] ELSE NoResponse

\* The response of authorize to a request processed with no other request
\* about: the first of the missing field, the bad value and the bind error
\* that there is, and the unimplemented step if there is none.
AloneAfterBind(b) ==
  IF complete(b.form) # Nil
    THEN fail(AloneBound(b), "Missing Field", complete(b.form))
  ELSE IF valid(b.form) # Nil
    THEN fail(AloneBound(b), "Bad Value", valid(b.form))
  ELSE IF b.err # Nil
    THEN fail(AloneBound(b), "Unknown Error", b.err)
  ELSE Unimplemented(AloneBound(b))

Alone(req, body) == AloneAfterBind(Bind(req, body))

\* C13: under every interleaving of authorize, keyset and discovery
\* requests, the form an authorize handler works on is the one bound from
\* its own request, and its response is the response to that request
\* processed alone; serving leaves the key and the routes as main made them.
C13_RequestsIndependent ==
  /\ \A i \in Conns :
       /\ conns[i].handler = "authorize" /\ conns[i].pc \notin {"idle", "handler"} =>
            /\ conns[i].form = Bind(conns[i].sent, conns[i].body).form
            /\ conns[i].bindErr = Bind(conns[i].sent, conns[i].body).err
       /\ At(i, "authorize", "done") =>
            conns[i].resp = Alone(conns[i].sent, conns[i].body)
  /\ mainpc = "serving" =>
       /\ rsakey = keygens[1].key
       /\ router = {Route("GET", "/", "hello", [text |-> "Hello, World!"])}
                     \cup oidcAddRoutes(ORIGIN, keygens[1].key)

\* Two authorize requests, one with nothing wrong and one with its
\* redirect_uri outside its client_id, have been processed at the same
\* time, after a key set and a discovery document were sent, and have got
\* different responses.
C13_Witness ==
  /\ \E i, j \in Conns :
       /\ At(i, "authorize", "done") /\ At(j, "authorize", "done")
       /\ conns[i].sent = GoodRequest /\ conns[i].body = "ok"
       /\ conns[j].sent # GoodRequest /\ conns[j].body = "ok"
       /\ conns[i].resp.status = 500
       /\ conns[j].resp.status = 400
       /\ conns[j].resp.body[1].error = "Bad Value"
  /\ \E l \in log : l.handler = "keyset"
  /\ \E l \in log : l.handler = "discovery"

\* The discovery document of the origin laoidc.herokuapp.com with the
\* endpoints /authorize and /jwks.json.
ExpectedDocument ==
  [issuer |-> "https://laoidc.herokuapp.com",
   authorization_endpoint |-> "https://laoidc.herokuapp.com/authorize",
   jwks_uri |-> "https://laoidc.herokuapp.com/jwks.json",
   scopes_supported |-> <<"openid", "email">>,
   claims_supported |-> <<"aud", "email", "email_verified", "exp", "iat", "iss", "sub">>,
   response_types_supported |-> <<"id_token">>,
   response_modes_supported |-> <<"form_post">>,
   grant_types_supports |-> <<"implicit">>,
   subject_types_supported |-> <<"public">>,
   id_token_signing_alg_values_supported |-> <<"RS256">>]

\* The router has a handler of the kind for the method at the path that,
\* put after the issuer, gives the endpoint.
RegisteredAt(method, kind, issuer, endpoint) ==
  \E r \in router :
    /\ r.method = method
    /\ r.handler.kind = kind
    /\ endpoint = issuer \o r.path
    /\ \A q \in router : q.method = method /\ q.path = r.path => q = r

\* C14: every response of GET /.well-known/openid-configuration is 200
\* with the one document built from the origin and the two paths, whatever
\* requests came before; its authorization endpoint and its JWKS endpoint
\* are the issuer followed by the paths at which authorize (POST) and
\* keyset (GET) are registered.
C14_DiscoveryFixed ==
  /\ \A r \in Responses("discovery") :
       /\ r.status = 200
       /\ Len(r.body) = 1
       /\ r.body[1].kind = "json"
       /\ r.body[1].value = ExpectedDocument
       /\ RegisteredAt("POST", "authorize", r.body[1].value.issuer,
                       r.body[1].value.authorization_endpoint)
       /\ RegisteredAt("GET", "keyset", r.body[1].value.issuer,
                       r.body[1].value.jwks_uri)
  /\ Cardinality(Responses("discovery")) <= 1
  /\ router # {} => Closure("discovery") = ExpectedDocument

\* A discovery document has been sent, authorize and keyset requests have
\* been answered since, and a second document is written.
C14_Witness ==
  /\ \E l \in log : l.handler = "discovery"
  /\ \E l \in log : l.handler = "keyset"
  /\ \E i, j \in Conns :
       /\ At(i, "discovery", "done")
       /\ At(j, "authorize", "done")

=============================================================================
